---- MODULE Spec2Model ----
(***************************************************************************)
(* Model of the adaptive engine of rx-player (src/unnamed/part_000, lines  *)
(* 17-388): the current-value cells owned by the engine, its setters, its  *)
(* teardown, the adaptation-choice streams, the representation stream and  *)
(* the buffer-size stream returned by getBufferAdapters, and calls of the  *)
(* module's pure helpers on arguments of their own.                        *)
(*                                                                         *)
(* JavaScript numbers are integers here; Infinity is an integer above      *)
(* every finite value of the model and NaN is a value for which every      *)
(* comparison is false.  The margin test of getClosestBitrate,             *)
(* (b / btr) <= (1 - threshold), is computed on integers as                *)
(* b * ThresholdScale <= (ThresholdScale - threshold) * btr, with the      *)
(* thresholds in tenths; where the double 1 - threshold falls below the    *)
(* decimal value, the test is strict (see RoundsBelow).  Bitrates of the   *)
(* pure helpers' inputs are in kbit/s.                                     *)
(***************************************************************************)
EXTENDS Integers, Sequences, FiniteSets

(***************************************************************************)
(* JavaScript values                                                       *)
(***************************************************************************)
Infinity == 1000000
NaN == -1000000

\* an argument given to a setter: typeof and, for a number, its value
JsNumber(n) == [type |-> "number", num |-> n]
JsOther(t) == [type |-> t, num |-> NaN]
\* an object where a number is expected (ToNumber of a plain object is NaN)
JsObject(o) == [type |-> "object", num |-> NaN, obj |-> o]
ToNumber(v) == IF v.type = "number" THEN v.num ELSE NaN

\* <, <=, > of JavaScript: false as soon as one side is NaN
Lt(a, b) == a # NaN /\ b # NaN /\ a < b
Le(a, b) == a # NaN /\ b # NaN /\ a <= b
Gt(a, b) == Lt(b, a)
MathMin(a, b) == IF a = NaN \/ b = NaN THEN NaN ELSE IF a < b THEN a ELSE b

(***************************************************************************)
(* DEFAULTS                                                                *)
(***************************************************************************)
defaultBufferSize == 30
\* defaultBufferThreshold 0.3, in units of 1 / ThresholdScale
defaultBufferThreshold == 3
ThresholdScale == 10
initialBitrate == 0
DebounceTime == 2000
NullTrack == [ref |-> 0, language |-> "", flag |-> FALSE]
defaultAudioTrack == [ref |-> 1, language |-> "fra", flag |-> FALSE]
defaultTextTrack == NullTrack

(***************************************************************************)
(* Bounds and input sets of the model                                      *)
(***************************************************************************)
\* logical time advances by TickMs milliseconds per Tick
TickMs == 1000
\* the index given to the map of avrBitrates is counted up to MaxCount
MaxCount == 1
\* calls of unsubscribe() are counted up to MaxUnsubscribe
MaxUnsubscribe == 3
\* values received from the bufferSizes stream are counted up to MaxReceived
MaxReceived == 3

MediaTypes == {"audio", "video"}
BufferTypes == {"audio", "video", "text"}
\* arguments given to the numeric setters
SetterArgs ==
  {JsNumber(n) : n \in {-5, 0, 5, 25, NaN, Infinity}}
    \cup {JsOther(t) : t \in {"undefined", "string", "object"}}
RepArgs == {JsNumber(0), JsNumber(5), JsNumber(25), JsOther("string")}
SameArgs == {JsNumber(5), JsNumber(25)}
TeardownArgs == {JsNumber(25), JsOther("undefined")}
\* values the bitrate estimator delivers, widths the viewport takes
Estimates == {0, 25, 60}
Widths == {2, 4}
\* "no value": a debounce with nothing pending
NoValue == -1

\* inputs of the pure helpers, bitrates in kbit/s: ladders are the ascending
\* sequences of at most MaxLadder values of PureBitrates, representation
\* lists the sequences of at most MaxReps distinct members of PureReps
MaxLadder == 4
MaxReps == 4
PureBitrates == {150, 210, 300, 750, 1500, 3000}
PureTargets ==
  {0, 100, 150, 299, 300, 1000, 1500, 2999, 3000, 5000, Infinity, NaN}
PureThresholds == 0..9
Ladders ==
  {l \in UNION {[1..n -> PureBitrates] : n \in 1..MaxLadder} :
     \A i \in 1..(Len(l) - 1) : l[i] < l[i + 1]}
ClosestArgs ==
  [fn : {"getClosestBitrate"}, bitrates : Ladders, btr : PureTargets,
   threshold : PureThresholds]
PureReps ==
  { [id |-> 1, bitrate |-> 1000, width |-> 640],
    [id |-> 2, bitrate |-> 2000, width |-> 1280],
    [id |-> 3, bitrate |-> 4000, width |-> 1920],
    [id |-> 4, bitrate |-> 8000, width |-> 3840],
    [id |-> 5, bitrate |-> 3000, width |-> 1920] }
PureWidths == {0, 640, 1000, 1920, 3840, 5000}
RepLists ==
  {l \in UNION {[1..n -> PureReps] : n \in 1..MaxReps} :
     \A i, j \in 1..Len(l) : l[i] = l[j] => i = j}
WidthArgs ==
  [fn : {"getMaxUsefulBitrateforWidth"}, representations : RepLists,
   width : PureWidths]

(***************************************************************************)
(* Pure helpers of the module                                              *)
(***************************************************************************)
NullRep == [id |-> 0, bitrate |-> NaN, width |-> NaN]
NullAdaptation == [id |-> 0, language |-> "", flag |-> FALSE]

\* function find(array, predicate) with the predicate of line 344:
\* the first representation of that bitrate, or null
RECURSIVE findFrom(_, _, _)
findFrom(array, bitrate, i) ==
  IF i > Len(array) THEN NullRep
  ELSE IF array[i].bitrate = bitrate THEN array[i]
  ELSE findFrom(array, bitrate, i + 1)

find(array, bitrate) == findFrom(array, bitrate, 1)

\* def without the x > 0 test
defAnyNumber(x, val) == IF x.type = "number" THEN x.num ELSE val

\* function def(x, val)
def(x, val) == IF x.type = "number" /\ Gt(x.num, 0) THEN x.num ELSE val

\* 1 - threshold in IEEE 754 doubles: 1 - 0.8 is 0.19999999999999996 and
\* 1 - 0.9 is 0.09999999999999998, below the doubles 0.2 and 0.1 that a
\* quotient of exactly that ratio gives; for the other tenths 1 - threshold
\* is the double of the decimal value (1 - 0.3 is 0.7) or is above it
\* (1 - 0.7 is 0.30000000000000004)
RoundsBelow(threshold) == threshold \in {8, 9}

\* the test of getClosestBitrate: (bitrates[i] / btr) <= (1 - threshold)
RatioLe(b, btr, threshold) ==
  IF btr = NaN \/ b = NaN THEN FALSE
  ELSE IF btr = 0 THEN FALSE
  ELSE IF btr = Infinity THEN b < Infinity
  ELSE IF RoundsBelow(threshold)
  THEN b * ThresholdScale < (ThresholdScale - threshold) * btr
  ELSE b * ThresholdScale <= (ThresholdScale - threshold) * btr

\* getClosestBitrate scanning the ladder from its lowest value
RECURSIVE closestAscending(_, _, _, _)
closestAscending(bitrates, btr, threshold, i) ==
  IF i > Len(bitrates) THEN bitrates[1]
  ELSE IF RatioLe(bitrates[i], btr, threshold) THEN bitrates[i]
  ELSE closestAscending(bitrates, btr, threshold, i + 1)

getClosestBitrateAscending(bitrates, btr, threshold) ==
  closestAscending(bitrates, btr, threshold, 1)

RECURSIVE closestFrom(_, _, _, _)
closestFrom(bitrates, btr, threshold, i) ==
  IF i < 1 THEN bitrates[1]
  ELSE IF RatioLe(bitrates[i], btr, threshold) THEN bitrates[i]
  ELSE closestFrom(bitrates, btr, threshold, i - 1)

\* getClosestBitrate without its final return bitrates[0]
RECURSIVE closestNoFallbackFrom(_, _, _, _)
closestNoFallbackFrom(bitrates, btr, threshold, i) ==
  IF i < 1 THEN NoValue
  ELSE IF RatioLe(bitrates[i], btr, threshold) THEN bitrates[i]
  ELSE closestNoFallbackFrom(bitrates, btr, threshold, i - 1)

getClosestBitrateNoFallback(bitrates, btr, threshold) ==
  closestNoFallbackFrom(bitrates, btr, threshold, Len(bitrates))

\* function getClosestBitrate(bitrates, btr, threshold=0)
getClosestBitrate(bitrates, btr, threshold) ==
  closestFrom(bitrates, btr, threshold, Len(bitrates))

\* representations.sort((a, b) => a.width - b.width): stable insertion sort
RECURSIVE insertByWidth(_, _)
insertByWidth(sorted, r) ==
  IF sorted = << >> THEN << r >>
  ELSE IF sorted[Len(sorted)].width <= r.width THEN Append(sorted, r)
  ELSE Append(insertByWidth(SubSeq(sorted, 1, Len(sorted) - 1), r),
              sorted[Len(sorted)])

RECURSIVE sortPrefix(_, _)
sortPrefix(reps, n) ==
  IF n = 0 THEN << >> ELSE insertByWidth(sortPrefix(reps, n - 1), reps[n])

sortedRepsByWidth(representations) ==
  sortPrefix(representations, Len(representations))

\* sortedRepsByWidth.find(r => r.width >= width), undefined as NullRep
RECURSIVE findWidthFrom(_, _, _)
findWidthFrom(array, width, i) ==
  IF i > Len(array) THEN NullRep
  ELSE IF array[i].width >= width THEN array[i]
  ELSE findWidthFrom(array, width, i + 1)

\* function getMaxUsefulBitrateforWidth(representations, width): the value
\* returned (the array itself is left sorted, see representationsAfter).
\* maxWidth is a representation, so that r.width <= maxWidth compares a
\* number with an object.
getMaxUsefulBitrateforWidth(representations, width) ==
  LET sorted == sortedRepsByWidth(representations)
      maxWidth == findWidthFrom(sorted, width, 1)
  IN IF maxWidth # NullRep
     THEN LET filteredAdaptations ==
                SelectSeq(sorted,
                          LAMBDA r : Le(r.width, ToNumber(JsObject(maxWidth))))
          IN IF Len(filteredAdaptations) > 0
             THEN JsNumber(filteredAdaptations[Len(filteredAdaptations)].bitrate)
             ELSE JsObject(sorted[1])
     ELSE JsNumber(Infinity)

(***************************************************************************)
(* Language matching and adaptation lookup                                 *)
(***************************************************************************)
\* ISO 639-1 tag to its ISO 639-2 tag (the matcher's normalization)
normalizeLanguage(l) ==
  IF l = "fr" THEN "fra" ELSE IF l = "en" THEN "eng" ELSE l

RECURSIVE indexOfFrom(_, _, _)
indexOfFrom(langs, l, i) ==
  IF i > Len(langs) THEN -1
  ELSE IF langs[i] = l THEN i - 1
  ELSE indexOfFrom(langs, l, i + 1)

\* findBetterMatchIndex(languages, language) of ../utils/languages: the
\* 0-based index of the first equal tag, else of the first tag equal after
\* normalization, else -1
findBetterMatchIndex(langs, l) ==
  LET exact == indexOfFrom(langs, l, 1)
      normalized == [i \in 1..Len(langs) |-> normalizeLanguage(langs[i])]
  IN IF exact >= 0 THEN exact
     ELSE indexOfFrom(normalized, normalizeLanguage(l), 1)

\* function findAdaptationByLang(adaptations, language)
findAdaptationByLang(adaptations, language) ==
  LET languages == [i \in 1..Len(adaptations) |-> adaptations[i].language]
      index == findBetterMatchIndex(languages, language)
  IN IF index >= 0 THEN adaptations[index + 1] ELSE NullAdaptation

\* function findAudioAdaptation(adaptations, language, audioDescription)
findAudioAdaptation(adaptations, language, audioDescription) ==
  LET filteredAdaptations ==
        SelectSeq(adaptations, LAMBDA a : a.flag = audioDescription)
  IN findAdaptationByLang(filteredAdaptations, language)

\* findTextAdaptation without the isClosedCaption filter
findTextAdaptationNoFilter(adaptations, language, closedCaption) ==
  findAdaptationByLang(adaptations, language)

\* function findTextAdaptation(adaptations, language, closedCaption)
findTextAdaptation(adaptations, language, closedCaption) ==
  LET filteredAdaptations ==
        SelectSeq(adaptations, LAMBDA a : a.flag = closedCaption)
  IN findAdaptationByLang(filteredAdaptations, language)

\* the map of audioAdaptationChoice without || adaptations[0]
audioAdaptationChoiceNoFallback(adaptations, track) ==
  findAudioAdaptation(adaptations, track.language, track.flag)

\* the map of audioAdaptationChoice: findAudioAdaptation(..) || adaptations[0]
audioAdaptationChoice(adaptations, track) ==
  LET found == findAudioAdaptation(adaptations, track.language, track.flag)
  IN IF found # NullAdaptation THEN found ELSE adaptations[1]

\* the map of textAdaptationChoice with the fallback of the audio one
textAdaptationChoiceFallsBack(adaptations, arg) ==
  LET found == findTextAdaptation(adaptations, arg.language, arg.flag)
  IN IF arg # NullTrack /\ found # NullAdaptation THEN found
     ELSE IF Len(adaptations) > 0 THEN adaptations[1]
     ELSE NullAdaptation

\* the map of textAdaptationChoice: arg ? findTextAdaptation(..) : null
textAdaptationChoice(adaptations, arg) ==
  IF arg # NullTrack
  THEN findTextAdaptation(adaptations, arg.language, arg.flag)
  ELSE NullAdaptation

(***************************************************************************)
(* Inputs: track preferences, candidate lists, adaptations                 *)
(***************************************************************************)
\* preference records; ref is the identity of the object (=== compares it)
TrackPrefs ==
  { [ref |-> 1, language |-> "fra", flag |-> FALSE],
    [ref |-> 2, language |-> "fr",  flag |-> FALSE],
    [ref |-> 3, language |-> "eng", flag |-> TRUE],
    [ref |-> 4, language |-> "fra", flag |-> FALSE],
    [ref |-> 5, language |-> "deu", flag |-> FALSE] }
TeardownPrefs ==
  { [ref |-> 1, language |-> "fra", flag |-> FALSE],
    [ref |-> 3, language |-> "eng", flag |-> TRUE] }

\* candidate lists; flag is isAudioDescription / isClosedCaption
CandidateLists ==
  { << [id |-> 1, language |-> "eng", flag |-> FALSE],
       [id |-> 2, language |-> "fra", flag |-> FALSE],
       [id |-> 3, language |-> "eng", flag |-> TRUE] >>,
    << [id |-> 1, language |-> "fra", flag |-> TRUE],
       [id |-> 2, language |-> "eng", flag |-> FALSE] >>,
    << [id |-> 1, language |-> "spa", flag |-> TRUE] >> }
TextCandidateLists == CandidateLists \cup { << >> }
\* two records with the same fields, and a third one
SamePrefs == {t \in TrackPrefs : t.ref \in {1, 3, 4}}
SameLists == {l \in CandidateLists : Len(l) = 3}

\* adaptations: the type and the representations in manifest order
Adaptations ==
  { [type |-> "video",
     representations |->
       << [id |-> 1, bitrate |-> 10, width |-> 1],
          [id |-> 2, bitrate |-> 20, width |-> 2],
          [id |-> 3, bitrate |-> 40, width |-> 3] >>],
    [type |-> "video",
     representations |->
       << [id |-> 1, bitrate |-> 10, width |-> 2],
          [id |-> 2, bitrate |-> 20, width |-> 3],
          [id |-> 3, bitrate |-> 10, width |-> 1] >>],
    [type |-> "audio",
     representations |->
       << [id |-> 1, bitrate |-> 10, width |-> 0],
          [id |-> 2, bitrate |-> 20, width |-> 0],
          [id |-> 3, bitrate |-> 40, width |-> 0] >>] }

\* adaptations with exactly one representation, one per type; "image" has no
\* buffer-size cell
SingleAdaptations ==
  { [type |-> "video",
     representations |-> << [id |-> 7, bitrate |-> 20, width |-> 3] >>],
    [type |-> "audio",
     representations |-> << [id |-> 8, bitrate |-> 10, width |-> 0] >>],
    [type |-> "text",
     representations |-> << [id |-> 9, bitrate |-> 5, width |-> 0] >>],
    [type |-> "image",
     representations |-> << [id |-> 6, bitrate |-> 5, width |-> 0] >>] }

\* adaptation.getAvailableBitrates(): the distinct bitrates, ascending
RECURSIVE ascending(_)
ascending(S) ==
  IF S = {} THEN << >>
  ELSE LET m == CHOOSE x \in S : \A y \in S : x <= y
       IN << m >> \o ascending(S \ {m})

getAvailableBitrates(representations) ==
  ascending({representations[i].bitrate : i \in 1..Len(representations)})

(***************************************************************************)
(* State                                                                   *)
(***************************************************************************)
VARIABLES
  options,          \* limitVideoWidth, throttleWhenHidden
  languages,        \* $languages
  subtitles,        \* $subtitles
  averageBitrates,  \* $averageBitrates
  usrBitrates,      \* $usrBitrates
  maxBitrates,      \* $maxBitrates
  bufSizes,         \* $bufSizes
  conns,            \* the Subscription of the estimator connections, or null
  released,         \* how many times conns.unsubscribe() has run
  videoWidth,       \* deviceEvents.videoWidth, latest value
  inBackground,     \* deviceEvents.inBackground, latest value
  adaptation,       \* the adaptation given to getBufferAdapters
  adapters,         \* the representations stream of getBufferAdapters
  audioChoice,      \* the stream of getAdaptationsChoice("audio", ..)
  textChoice,       \* the stream of getAdaptationsChoice("text", ..)
  bufferSizes,      \* the bufferSizes stream of getBufferAdapters
  args,             \* the arguments of a call of one of the pure helpers
  result,           \* what that call returned and left in its array argument
  lastCall          \* the last operation, the path it took, what it emitted

cells ==
  << languages, subtitles, averageBitrates, usrBitrates, maxBitrates, bufSizes >>
device == << videoWidth, inBackground >>
streams == << adaptation, adapters, audioChoice, textChoice >>
pure == << args, result >>
vars ==
  << options, languages, subtitles, averageBitrates, usrBitrates, maxBitrates,
     bufSizes, conns, released, videoWidth, inBackground, adaptation, adapters,
     audioChoice, textChoice, bufferSizes, args, result, lastCall >>

Call(op, type, note, fired) ==
  [op |-> op, type |-> type, note |-> note, fired |-> fired]

NoAdapters ==
  [phase |-> "none", bitrates |-> << >>, startWith |-> NoValue, count |-> 0,
   key |-> NoValue, pending |-> NoValue, timer |-> 0, usr |-> NoValue,
   max |-> NoValue, avr |-> NoValue, emitted |-> NullRep, emits |-> FALSE,
   error |-> FALSE]
NoChoice ==
  [subscribed |-> FALSE, adaptations |-> << >>, key |-> NullTrack,
   emitted |-> NullAdaptation]

NoArgs == [fn |-> "none"]
NoResult == [fn |-> "none"]
NoBufferSizes == [subscribed |-> FALSE, emitted |-> NoValue, received |-> 0]

\* the engine as constructed with the default options and the two policies
Constructed(opts, adapt, width) ==
  /\ options = opts
  /\ languages = defaultAudioTrack
  /\ subtitles = defaultTextTrack
  /\ averageBitrates = [t \in MediaTypes |-> initialBitrate]
  /\ usrBitrates = [t \in MediaTypes |-> Infinity]
  /\ maxBitrates = [t \in MediaTypes |-> Infinity]
  /\ bufSizes = [t \in BufferTypes |-> defaultBufferSize]
  /\ conns = "open"
  /\ released = 0
  /\ videoWidth = width
  /\ inBackground = FALSE
  /\ adaptation = adapt
  /\ adapters = NoAdapters
  /\ audioChoice = NoChoice
  /\ textChoice = NoChoice
  /\ bufferSizes = NoBufferSizes
  /\ result = NoResult
  /\ lastCall = Call("new", "", "", {})

DefaultOptions == [limitVideoWidth |-> FALSE, throttleWhenHidden |-> FALSE]
DefaultAdaptation == CHOOSE a \in Adaptations : a.type = "audio"

Init == Constructed(DefaultOptions, DefaultAdaptation, 2) /\ args = NoArgs

\* the engine constructed, and the arguments of one call of a pure helper
InitPure ==
  /\ Constructed(DefaultOptions, DefaultAdaptation, 2)
  /\ args \in ClosestArgs \cup WidthArgs

InitRep ==
  \E opts \in [limitVideoWidth : BOOLEAN, throttleWhenHidden : BOOLEAN],
     adapt \in Adaptations, width \in Widths :
    /\ adapt.type = "audio" => opts = DefaultOptions /\ width = 2
    /\ Constructed(opts, adapt, width)
    /\ args = NoArgs

\* one adaptation handed to getBufferAdapters: one representation, or the
\* audio adaptation with three
InitSingle ==
  \E adapt \in SingleAdaptations \cup {DefaultAdaptation} :
    /\ Constructed(DefaultOptions, adapt, 2)
    /\ args = NoArgs

(***************************************************************************)
(* The representations stream (getBufferAdapters)                          *)
(***************************************************************************)
Subscribed(type) == adapters.phase = "subscribed" /\ adaptation.type = type

\* whether the map of the video maxBitrates calls getMaxUsefulBitrateforWidth
callsMaxUseful(isHidden) ==
  ~(options.throttleWhenHidden /\ isHidden) /\ options.limitVideoWidth

\* adaptation.representations after the map of the video maxBitrates has run
representationsAfter(representations, isHidden) ==
  IF callsMaxUseful(isHidden)
  THEN sortedRepsByWidth(representations)
  ELSE representations

\* the map of the video maxBitrates without the throttleWhenHidden branch
videoMaxBitrateNoThrottle(maxSetBitrate, width, isHidden, representations, bitrates) ==
  LET maxUsableBitrate ==
        IF options.limitVideoWidth
        THEN getMaxUsefulBitrateforWidth(representations, width)
        ELSE JsNumber(bitrates[Len(bitrates)])
  IN MathMin(ToNumber(maxUsableBitrate), maxSetBitrate)

\* the map of the video maxBitrates: [maxSetBitrate, width, isHidden] => ..
videoMaxBitrate(maxSetBitrate, width, isHidden, representations, bitrates) ==
  IF options.throttleWhenHidden /\ isHidden
  THEN bitrates[1]
  ELSE LET maxUsableBitrate ==
             IF options.limitVideoWidth
             THEN getMaxUsefulBitrateforWidth(representations, width)
             ELSE JsNumber(bitrates[Len(bitrates)])
       IN MathMin(ToNumber(maxUsableBitrate), maxSetBitrate)

\* the projection with the max bound applied to the pin as well
chooseRepresentationMaxFirst(usr, max, avr, representations, bitrates) ==
  LET btr == IF Lt(max, Infinity)
             THEN MathMin(max, IF Lt(usr, Infinity) THEN usr ELSE avr)
             ELSE IF Lt(usr, Infinity) THEN usr ELSE avr
  IN find(representations, getClosestBitrate(bitrates, btr, 0))

\* the projection with usr <= Infinity for usr < Infinity
chooseRepresentationPinAlways(usr, max, avr, representations, bitrates) ==
  find(representations, getClosestBitrate(bitrates, usr, 0))

\* the projection with a finite max bound taken as the target by itself
chooseRepresentationMaxAlone(usr, max, avr, representations, bitrates) ==
  LET btr == IF Lt(usr, Infinity) THEN usr
             ELSE IF Lt(max, Infinity) THEN max
             ELSE avr
  IN find(representations, getClosestBitrate(bitrates, btr, 0))

\* the projection of combineLatest(usrBitrates, maxBitrates, avrBitrates, ..)
chooseRepresentation(usr, max, avr, representations, bitrates) ==
  LET btr == IF Lt(usr, Infinity) THEN usr
             ELSE IF Lt(max, Infinity) THEN MathMin(max, avr)
             ELSE avr
  IN find(representations, getClosestBitrate(bitrates, btr, 0))

\* the stream after a step in which it emits nothing
quiet(ad) == [ad EXCEPT !.emits = FALSE]

\* the combineLatest projection without distinctUntilChanged
combineNoDistinct(ad, representations) ==
  LET chosen ==
        chooseRepresentation(ad.usr, ad.max, ad.avr, representations, ad.bitrates)
  IN [ad EXCEPT !.emitted = chosen, !.emits = TRUE]

\* combineLatest projection then distinctUntilChanged((a, b) => a.id === b.id):
\* the stream after one of its three inputs has delivered a value
combine(ad, representations) ==
  LET chosen ==
        chooseRepresentation(ad.usr, ad.max, ad.avr, representations, ad.bitrates)
  IN IF ad.error THEN quiet(ad)
     ELSE IF chosen = NullRep \/ ad.emitted = NullRep
     THEN [ad EXCEPT !.error = TRUE, !.emits = FALSE]
     ELSE IF chosen.id = ad.emitted.id THEN quiet(ad)
     ELSE [ad EXCEPT !.emitted = chosen, !.emits = TRUE]

\* what a step that took the stream from `before` to `after` fired
Fired(before, after) ==
  IF after # before /\ after.emits THEN {"representations"} ELSE {}

\* a new value on the max input that waits for another input to be combined
maxInputNotCombined(type, maxSetBitrate, width, isHidden) ==
  IF type = "video"
  THEN LET reps == representationsAfter(adaptation.representations, isHidden)
           max == videoMaxBitrate(maxSetBitrate, width, isHidden,
                                  adaptation.representations, adapters.bitrates)
       IN /\ adaptation' = [adaptation EXCEPT !.representations = reps]
          /\ adapters' = quiet([adapters EXCEPT !.max = max])
  ELSE /\ adaptation' = adaptation
       /\ adapters' = quiet([adapters EXCEPT !.max = maxSetBitrate])

\* a new value on the max input of the stream subscribed for `type`
maxInput(type, maxSetBitrate, width, isHidden) ==
  IF type = "video"
  THEN LET reps == representationsAfter(adaptation.representations, isHidden)
           max == videoMaxBitrate(maxSetBitrate, width, isHidden,
                                  adaptation.representations, adapters.bitrates)
       IN /\ adaptation' = [adaptation EXCEPT !.representations = reps]
          /\ adapters' = combine([adapters EXCEPT !.max = max], reps)
  ELSE /\ adaptation' = adaptation
       /\ adapters' = combine([adapters EXCEPT !.max = maxSetBitrate],
                              adaptation.representations)

\* only(x) of ../utils/rx-utils: the values its stream hands to a
\* subscriber, x and nothing after it
only(x) == << x >>

\* function getBufferAdapters(adaptation): the combined stream for
\* representations.length > 1, only(representations[0]) otherwise
getBufferAdapters ==
  /\ adapters.phase = "none"
  /\ LET bitrates == getAvailableBitrates(adaptation.representations)
     IN IF Len(adaptation.representations) > 1
        THEN adapters' =
               [adapters EXCEPT
                  !.phase = "created",
                  !.bitrates = bitrates,
                  !.startWith =
                    getClosestBitrate(bitrates,
                                      averageBitrates[adaptation.type], 0)]
        ELSE adapters' =
               [adapters EXCEPT !.phase = "only", !.bitrates = bitrates]
  /\ lastCall' = Call("getBufferAdapters", adaptation.type, "", {})
  /\ UNCHANGED << options, cells, conns, released, device, adaptation,
                  audioChoice, textChoice,
                  bufferSizes, pure >>

\* representations.subscribe(..): the inputs are subscribed in order, the
\* startWith value gives the first emission, then the current average bitrate
\* goes through map (count 0), distinctUntilChanged and into debounceTime
subscribeRepresentations ==
  /\ adapters.phase \in {"created", "only"}
  /\ IF adapters.phase = "only"
     THEN /\ adaptation' = adaptation
          /\ adapters' =
               [adapters EXCEPT
                  !.phase = "onlySubscribed",
                  !.emitted = only(adaptation.representations[1])[1],
                  !.emits = TRUE]
          /\ lastCall' =
               Call("subscribe", adaptation.type, "", {"representations"})
     ELSE
     LET type == adaptation.type
         reps == IF type = "video"
                 THEN representationsAfter(adaptation.representations,
                                           inBackground)
                 ELSE adaptation.representations
         max == IF type = "video"
                THEN videoMaxBitrate(maxBitrates[type], videoWidth, inBackground,
                                     adaptation.representations,
                                     adapters.bitrates)
                ELSE maxBitrates[type]
         first == getClosestBitrate(adapters.bitrates, averageBitrates[type], 0)
     IN /\ adaptation' = [adaptation EXCEPT !.representations = reps]
        /\ adapters' =
             [adapters EXCEPT
                !.phase = "subscribed",
                !.usr = usrBitrates[type],
                !.max = max,
                !.avr = adapters.startWith,
                !.emitted =
                  chooseRepresentation(usrBitrates[type], max,
                                       adapters.startWith, reps,
                                       adapters.bitrates),
                !.emits = TRUE,
                !.count = 1,
                !.key = first,
                !.pending = first,
                !.timer = DebounceTime]
        /\ lastCall' = Call("subscribe", type, "", {"representations"})
  /\ UNCHANGED << options, cells, conns, released, device, audioChoice,
                  textChoice,
                  bufferSizes, pure >>

\* one more value received by the subscriber, counted up to MaxReceived
Received(n) == IF n < MaxReceived THEN n + 1 ELSE MaxReceived

\* a subject of its own for every adaptation, holding the default
bufferSizesFresh(type) == defaultBufferSize

\* the current value of $bufSizes[type] || new BehaviorSubject(defaultBufferSize)
bufferSizesValue(type) ==
  IF type \in BufferTypes THEN bufSizes[type] ELSE defaultBufferSize

\* getBufferAdapters(adaptation).bufferSizes.subscribe(..): the subject
\* replays its current value
subscribeBufferSizes ==
  /\ adapters.phase # "none"
  /\ ~bufferSizes.subscribed
  /\ bufferSizes' =
       [subscribed |-> TRUE, emitted |-> bufferSizesValue(adaptation.type),
        received |-> 1]
  /\ lastCall' = Call("subscribeBufferSizes", adaptation.type, "",
                      {"bufferSizes"})
  /\ UNCHANGED << options, cells, conns, released, device, streams, pure >>

(***************************************************************************)
(* Setters                                                                 *)
(***************************************************************************)
\* whether def(x, val) gave val instead of x
Note(x) == IF def(x, NoValue) = NoValue THEN "defaulted" ELSE "stored"

\* $usrBitrates[type].next(def(x, Infinity))
setBitrate(type, x) ==
  LET v == def(x, Infinity)
  IN /\ usrBitrates' = [usrBitrates EXCEPT ![type] = v]
     /\ IF Subscribed(type)
        THEN adapters' = combine([adapters EXCEPT !.usr = v],
                                 adaptation.representations)
        ELSE adapters' = adapters
     /\ lastCall' = Call("setBitrate", type, Note(x), Fired(adapters, adapters'))
     /\ UNCHANGED << options, languages, subtitles, averageBitrates,
                     maxBitrates, bufSizes, conns, released, device, adaptation,
                     audioChoice, textChoice,
                  bufferSizes, pure >>

setAudioBitrate(x) == setBitrate("audio", x)
setVideoBitrate(x) == setBitrate("video", x)

\* $maxBitrates[type].next(def(x, Infinity))
setMaxBitrate(type, x) ==
  LET v == def(x, Infinity)
  IN /\ maxBitrates' = [maxBitrates EXCEPT ![type] = v]
     /\ IF Subscribed(type)
        THEN maxInput(type, v, videoWidth, inBackground)
        ELSE UNCHANGED << adaptation, adapters >>
     /\ lastCall' =
          Call("setMaxBitrate", type, Note(x), Fired(adapters, adapters'))
     /\ UNCHANGED << options, languages, subtitles, averageBitrates,
                     usrBitrates, bufSizes, conns, released, device,
                     audioChoice, textChoice,
                  bufferSizes, pure >>

setAudioMaxBitrate(x) == setMaxBitrate("audio", x)
setVideoMaxBitrate(x) == setMaxBitrate("video", x)

\* $bufSizes[type].next(def(x, defaultBufferSize)): a BehaviorSubject hands
\* every value given to next() to its subscribers
setBufferSize(type, x) ==
  LET v == def(x, defaultBufferSize)
      observed == bufferSizes.subscribed /\ adaptation.type = type
  IN /\ bufSizes' = [bufSizes EXCEPT ![type] = v]
     /\ bufferSizes' =
          IF observed
          THEN [bufferSizes EXCEPT !.emitted = v,
                                   !.received = Received(bufferSizes.received)]
          ELSE bufferSizes
     /\ lastCall' = Call("setBufferSize", type, Note(x),
                         IF observed THEN {"bufferSizes"} ELSE {})
     /\ UNCHANGED << options, languages, subtitles, averageBitrates,
                     usrBitrates, maxBitrates, conns, released, device,
                     streams, pure >>

setAudioBufferSize(x) == setBufferSize("audio", x)
setVideoBufferSize(x) == setBufferSize("video", x)

\* setAudioTrack(track): $languages.next(track); the subscribed choice stream
\* passes it through distinctUntilChanged (===) and the map
setAudioTrack(track) ==
  /\ languages' = track
  /\ IF audioChoice.subscribed /\ track.ref # audioChoice.key.ref
     THEN /\ audioChoice' =
               [audioChoice EXCEPT
                  !.key = track,
                  !.emitted = audioAdaptationChoice(audioChoice.adaptations,
                                                    track)]
          /\ lastCall' = Call("setAudioTrack", "audio", "", {"audioChoice"})
     ELSE /\ audioChoice' = audioChoice
          /\ lastCall' = Call("setAudioTrack", "audio", "", {})
  /\ UNCHANGED << options, subtitles, averageBitrates, usrBitrates,
                  maxBitrates, bufSizes, conns, released, device, adaptation,
                  adapters, textChoice,
                  bufferSizes, pure >>

\* setTextTrack(track): $subtitles.next(track)
setTextTrack(track) ==
  /\ subtitles' = track
  /\ IF textChoice.subscribed /\ track.ref # textChoice.key.ref
     THEN /\ textChoice' =
               [textChoice EXCEPT
                  !.key = track,
                  !.emitted = textAdaptationChoice(textChoice.adaptations,
                                                   track)]
          /\ lastCall' = Call("setTextTrack", "text", "", {"textChoice"})
     ELSE /\ textChoice' = textChoice
          /\ lastCall' = Call("setTextTrack", "text", "", {})
  /\ UNCHANGED << options, languages, averageBitrates, usrBitrates,
                  maxBitrates, bufSizes, conns, released, device, adaptation,
                  adapters, audioChoice, bufferSizes, pure >>

\* getAdaptationsChoice("audio", adaptations).subscribe(..): the current
\* preference is replayed and mapped at once
subscribeAudioChoice(adaptations) ==
  /\ ~audioChoice.subscribed
  /\ audioChoice' =
       [subscribed |-> TRUE, adaptations |-> adaptations, key |-> languages,
        emitted |-> audioAdaptationChoice(adaptations, languages)]
  /\ lastCall' = Call("getAdaptationsChoice", "audio", "", {"audioChoice"})
  /\ UNCHANGED << options, cells, conns, released, device, adaptation,
                  adapters, textChoice,
                  bufferSizes, pure >>

\* getAdaptationsChoice("text", adaptations).subscribe(..)
subscribeTextChoice(adaptations) ==
  /\ ~textChoice.subscribed
  /\ textChoice' =
       [subscribed |-> TRUE, adaptations |-> adaptations, key |-> subtitles,
        emitted |-> textAdaptationChoice(adaptations, subtitles)]
  /\ lastCall' = Call("getAdaptationsChoice", "text", "", {"textChoice"})
  /\ UNCHANGED << options, cells, conns, released, device, adaptation,
                  adapters, audioChoice, bufferSizes, pure >>

(***************************************************************************)
(* Inputs from outside: metrics, device events, time                       *)
(***************************************************************************)
\* what the estimator AverageBitrate(filterByType(metrics, type)) may deliver
\* for one sample
AverageBitrate == Estimates

\* the avrBitrates chain with count === 0 taken for every value
avrInputNoMargin(ad, v) ==
  LET mapped == getClosestBitrate(ad.bitrates, v, 0)
      counted ==
        [ad EXCEPT !.count = IF ad.count < MaxCount THEN ad.count + 1 ELSE MaxCount,
                   !.emits = FALSE]
  IN IF mapped = ad.key THEN counted
     ELSE [counted EXCEPT !.key = mapped, !.pending = mapped,
                          !.timer = DebounceTime]

\* the avrBitrates chain with a timer that a newer value does not restart
avrInputNoRestart(ad, v) ==
  LET bufThreshold == IF ad.count = 0 THEN 0 ELSE defaultBufferThreshold
      mapped == getClosestBitrate(ad.bitrates, v, bufThreshold)
      counted ==
        [ad EXCEPT !.count = IF ad.count < MaxCount THEN ad.count + 1 ELSE MaxCount,
                   !.emits = FALSE]
  IN IF mapped = ad.key THEN counted
     ELSE [counted EXCEPT
             !.key = mapped, !.pending = mapped,
             !.timer = IF ad.pending = NoValue THEN DebounceTime ELSE ad.timer]

\* the avrBitrates chain on a value v of $averageBitrates[type]: map with the
\* index count, distinctUntilChanged, debounceTime(2000)
avrInput(ad, v) ==
  LET bufThreshold == IF ad.count = 0 THEN 0 ELSE defaultBufferThreshold
      mapped == getClosestBitrate(ad.bitrates, v, bufThreshold)
      counted ==
        [ad EXCEPT !.count = IF ad.count < MaxCount THEN ad.count + 1 ELSE MaxCount,
                   !.emits = FALSE]
  IN IF mapped = ad.key THEN counted
     ELSE [counted EXCEPT !.key = mapped, !.pending = mapped,
                          !.timer = DebounceTime]

\* the estimator fed whether or not its connection was released
metricsSampleAlways(type, v) ==
  /\ averageBitrates' = [averageBitrates EXCEPT ![type] = v]
  /\ adapters' = IF Subscribed(type) THEN avrInput(adapters, v) ELSE adapters
  /\ lastCall' = Call("metrics", type, "consumed", {})
  /\ UNCHANGED << options, languages, subtitles, usrBitrates, maxBitrates,
                  bufSizes, conns, released, device, adaptation, audioChoice,
                  textChoice,
                  bufferSizes, pure >>

\* the metrics source emits a sample of `type`; while connected the estimator
\* multicasts its new value v into $averageBitrates[type]
metricsSample(type, v) ==
  /\ IF conns = "open"
     THEN /\ averageBitrates' = [averageBitrates EXCEPT ![type] = v]
          /\ adapters' = IF Subscribed(type) THEN avrInput(adapters, v)
                         ELSE adapters
          /\ lastCall' = Call("metrics", type, "consumed", {})
     ELSE /\ UNCHANGED << averageBitrates, adapters >>
          /\ lastCall' = Call("metrics", type, "dropped", {})
  /\ UNCHANGED << options, languages, subtitles, usrBitrates, maxBitrates,
                  bufSizes, conns, released, device, adaptation, audioChoice,
                  textChoice,
                  bufferSizes, pure >>

\* deviceEvents.videoWidth emits w
videoWidthChange(w) ==
  /\ videoWidth' = w
  /\ IF Subscribed("video")
     THEN maxInput("video", maxBitrates["video"], w, inBackground)
     ELSE UNCHANGED << adaptation, adapters >>
  /\ lastCall' = Call("videoWidth", "video", "", Fired(adapters, adapters'))
  /\ UNCHANGED << options, cells, conns, released, inBackground, audioChoice,
                  textChoice,
                  bufferSizes, pure >>

\* deviceEvents.inBackground emits isHidden
inBackgroundChange(isHidden) ==
  /\ inBackground' = isHidden
  /\ IF Subscribed("video")
     THEN maxInput("video", maxBitrates["video"], videoWidth, isHidden)
     ELSE UNCHANGED << adaptation, adapters >>
  /\ lastCall' = Call("inBackground", "video", "", Fired(adapters, adapters'))
  /\ UNCHANGED << options, cells, conns, released, videoWidth, audioChoice,
                  textChoice,
                  bufferSizes, pure >>

\* TickMs milliseconds pass; a debounce timer that runs out delivers the
\* pending value to combineLatest
Tick ==
  /\ adapters.phase = "subscribed"
  /\ adapters.pending # NoValue
  /\ IF adapters.timer - TickMs <= 0
     THEN adapters' =
            combine([adapters EXCEPT !.avr = adapters.pending,
                                     !.pending = NoValue, !.timer = 0],
                    adaptation.representations)
     ELSE adapters' = [adapters EXCEPT !.timer = adapters.timer - TickMs,
                                       !.emits = FALSE]
  /\ lastCall' = Call("tick", adaptation.type,
                      IF adapters'.pending = NoValue THEN "delivered" ELSE "",
                      Fired(adapters, adapters'))
  /\ UNCHANGED << options, cells, conns, released, device, adaptation,
                  audioChoice, textChoice,
                  bufferSizes, pure >>

(***************************************************************************)
(* Calls of the pure helpers                                               *)
(***************************************************************************)
\* getClosestBitrate(bitrates, btr, threshold)
callGetClosestBitrate ==
  /\ args.fn = "getClosestBitrate"
  /\ result = NoResult
  /\ result' =
       [fn |-> args.fn,
        value |-> getClosestBitrate(args.bitrates, args.btr, args.threshold)]
  /\ UNCHANGED << options, cells, conns, released, device, streams,
                  bufferSizes, args, lastCall >>

\* getMaxUsefulBitrateforWidth(representations, width): what it returns and
\* the order it leaves the array in
callGetMaxUsefulBitrateforWidth ==
  /\ args.fn = "getMaxUsefulBitrateforWidth"
  /\ result = NoResult
  /\ result' =
       [fn |-> args.fn,
        value |-> getMaxUsefulBitrateforWidth(args.representations, args.width),
        representations |-> sortedRepsByWidth(args.representations)]
  /\ UNCHANGED << options, cells, conns, released, device, streams,
                  bufferSizes, args, lastCall >>

(***************************************************************************)
(* Teardown                                                                *)
(***************************************************************************)
\* unsubscribe() without the if (conns) guard
unsubscribeUnguarded ==
  /\ released' = IF released < MaxUnsubscribe THEN released + 1
                 ELSE MaxUnsubscribe
  /\ conns' = "null"
  /\ lastCall' = Call("unsubscribe", "", "released", {})
  /\ UNCHANGED << options, cells, device, streams, bufferSizes, pure >>

\* unsubscribe(): if (conns) { conns.unsubscribe(); conns = null; }
unsubscribe ==
  /\ IF conns # "null"
     THEN /\ released' = IF released < MaxUnsubscribe THEN released + 1
                         ELSE MaxUnsubscribe
          /\ conns' = "null"
          /\ lastCall' = Call("unsubscribe", "", "released", {})
     ELSE /\ UNCHANGED << released, conns >>
          /\ lastCall' = Call("unsubscribe", "", "noop", {})
  /\ UNCHANGED << options, cells, device, streams, bufferSizes, pure >>

(***************************************************************************)
(* Specifications                                                          *)
(***************************************************************************)
\* the numeric setters, with every kind of argument
NextSetters ==
  \E x \in SetterArgs :
    \/ setAudioBitrate(x)
    \/ setVideoBitrate(x)
    \/ setAudioMaxBitrate(x)
    \/ setVideoMaxBitrate(x)
    \/ setAudioBufferSize(x)
    \/ setVideoBufferSize(x)

SpecSetters == Init /\ [][NextSetters]_vars

\* construction to teardown and after: metrics, setters, unsubscribe
NextTeardown ==
  \/ unsubscribe
  \/ \E t \in MediaTypes, v \in AverageBitrate : metricsSample(t, v)
  \/ \E track \in TeardownPrefs : setAudioTrack(track)
  \/ \E track \in TeardownPrefs \cup {NullTrack} : setTextTrack(track)
  \/ \E x \in TeardownArgs :
       \/ setAudioBitrate(x)
       \/ setVideoBitrate(x)
       \/ setAudioMaxBitrate(x)
       \/ setVideoMaxBitrate(x)
       \/ setAudioBufferSize(x)
       \/ setVideoBufferSize(x)

SpecTeardown == Init /\ [][NextTeardown]_vars

\* the adaptation-choice streams
NextTracks ==
  \/ \E track \in TrackPrefs : setAudioTrack(track)
  \/ \E track \in TrackPrefs \cup {NullTrack} : setTextTrack(track)
  \/ \E adaptations \in CandidateLists : subscribeAudioChoice(adaptations)
  \/ \E adaptations \in TextCandidateLists : subscribeTextChoice(adaptations)

SpecTracks == Init /\ [][NextTracks]_vars

\* the pure helpers on the arguments drawn by InitPure
NextPure ==
  \/ callGetClosestBitrate
  \/ callGetMaxUsefulBitrateforWidth

SpecPure == InitPure /\ [][NextPure]_vars

\* every setter called again with the value it was last called with
NextSame ==
  \/ getBufferAdapters
  \/ subscribeRepresentations
  \/ subscribeBufferSizes
  \/ \E adaptations \in SameLists : subscribeAudioChoice(adaptations)
  \/ \E adaptations \in SameLists : subscribeTextChoice(adaptations)
  \/ \E track \in SamePrefs : setAudioTrack(track)
  \/ \E track \in SamePrefs : setTextTrack(track)
  \/ \E x \in SameArgs :
       \/ setAudioBitrate(x)
       \/ setAudioMaxBitrate(x)
       \/ setAudioBufferSize(x)

SpecSame == Init /\ [][NextSame]_vars

\* the estimate of the audio adaptation through its debounce; time passes
NextDebounce ==
  \/ getBufferAdapters
  \/ subscribeRepresentations
  \/ \E x \in RepArgs : setAudioBitrate(x)
  \/ \E v \in AverageBitrate : metricsSample("audio", v)
  \/ Tick

SpecDebounce == Init /\ [][NextDebounce]_vars /\ WF_vars(Tick)

\* the representations stream of one adaptation, with the cells of its type
NextRep ==
  \/ getBufferAdapters
  \/ subscribeRepresentations
  \/ \E x \in RepArgs : setBitrate(adaptation.type, x)
  \/ \E x \in RepArgs : setMaxBitrate(adaptation.type, x)
  \/ \E v \in AverageBitrate : metricsSample(adaptation.type, v)
  \/ \E w \in Widths : adaptation.type = "video" /\ videoWidthChange(w)
  \/ \E h \in BOOLEAN : adaptation.type = "video" /\ inBackgroundChange(h)
  \/ Tick

Spec == InitRep /\ [][NextRep]_vars

\* the type whose bitrate cells and estimate are exercised beside the
\* adaptation: its own when it has them
cellType == IF adaptation.type \in MediaTypes THEN adaptation.type ELSE "video"

\* both streams of getBufferAdapters(adaptation) beside the setters, the
\* estimator and the device
NextSingle ==
  \/ getBufferAdapters
  \/ subscribeRepresentations
  \/ subscribeBufferSizes
  \/ \E x \in TeardownArgs : setBitrate(cellType, x)
  \/ \E x \in TeardownArgs : setMaxBitrate(cellType, x)
  \/ \E x \in TeardownArgs : setAudioBufferSize(x)
  \/ \E x \in TeardownArgs : setVideoBufferSize(x)
  \/ \E v \in AverageBitrate : metricsSample(cellType, v)
  \/ \E w \in Widths : adaptation.type = "video" /\ videoWidthChange(w)
  \/ \E h \in BOOLEAN : adaptation.type = "video" /\ inBackgroundChange(h)
  \/ Tick

SpecSingle == InitSingle /\ [][NextSingle]_vars

(***************************************************************************)
(* Properties                                                              *)
(***************************************************************************)
RepSet ==
  {adaptation.representations[i] : i \in 1..Len(adaptation.representations)}
Ladder == {r.bitrate : r \in RepSet}
SetMin(S) == CHOOSE x \in S : \A y \in S : x <= y
SetMax(S) == CHOOSE x \in S : \A y \in S : y <= x
\* the largest value of S that is <= v, the lowest value of S if there is none
LargestAtMost(S, v) ==
  LET below == {b \in S : b <= v}
  IN IF below = {} THEN SetMin(S) ELSE SetMax(below)
IsPositiveNumber(x) == x.type = "number" /\ x.num # NaN /\ x.num >= 1
Normalized(x, sentinel) == IF IsPositiveNumber(x) THEN x.num ELSE sentinel
IsFinite(n) == n # NaN /\ n # Infinity

\* C1: while the user-pinned bitrate of the adaptation's type is finite, the
\* representation last emitted is a representation of the adaptation whose
\* bitrate is the largest ladder value <= the pin (the lowest ladder value if
\* the pin is below the ladder), whatever the other inputs are.
C1_PinnedBitrateWins ==
  (adapters.phase = "subscribed" /\ usrBitrates[adaptation.type] < Infinity)
    => /\ ~adapters.error
       /\ adapters.emitted \in RepSet
       /\ adapters.emitted.bitrate =
            LargestAtMost(Ladder, usrBitrates[adaptation.type])

\* a pin of 25 with an operator max of 5 below it, hidden and throttled, and
\* an estimate that maps elsewhere: the pin's ladder value 20 is emitted
C1_Witness ==
  /\ Subscribed("video")
  /\ usrBitrates["video"] = 25
  /\ maxBitrates["video"] = 5
  /\ options.throttleWhenHidden /\ inBackground
  /\ options.limitVideoWidth
  /\ adapters.avr = 40
  /\ adapters.emitted.bitrate = 20

\* C2: with no pin and a finite operator max bitrate >= the lowest ladder
\* bitrate, the chosen video representation's bitrate is <= the operator max
\* bitrate, with the width limit disabled and enabled.
C2_OperatorMaxBounds ==
  ( /\ Subscribed("video")
    /\ usrBitrates["video"] = Infinity
    /\ maxBitrates["video"] < Infinity
    /\ maxBitrates["video"] >= SetMin(Ladder) )
    => adapters.emitted.bitrate <= maxBitrates["video"]

\* the same bound with the width limit disabled (it holds there)
C2_HoldsWithoutWidthLimit ==
  options.limitVideoWidth \/ C2_OperatorMaxBounds

\* C3: with the throttle-when-hidden policy and no pin, while the latest
\* background value is hidden the chosen video representation has the lowest
\* ladder bitrate; without the policy a background event changes nothing of
\* the stream.
C3_HiddenThrottle ==
  /\ []( ( /\ Subscribed("video")
           /\ options.throttleWhenHidden
           /\ inBackground
           /\ usrBitrates["video"] = Infinity )
         => /\ adapters.emitted \in RepSet
            /\ adapters.emitted.bitrate = SetMin(Ladder) )
  /\ [][ (~options.throttleWhenHidden /\ lastCall'.op = "inBackground")
           => /\ quiet(adapters') = quiet(adapters)
              /\ lastCall'.fired = {} ]_vars

\* hidden and throttled with an operator max of 25, a wide viewport and an
\* estimate delivered as 40: the lowest bitrate is emitted by the event
C3_Witness ==
  /\ Subscribed("video")
  /\ options.throttleWhenHidden /\ inBackground
  /\ usrBitrates["video"] = Infinity
  /\ maxBitrates["video"] = 25
  /\ videoWidth = 4
  /\ adapters.avr = 40
  /\ adapters.emitted.bitrate = 10
  /\ lastCall = Call("inBackground", "video", "", {"representations"})

\* C4: each numeric setter stores its argument when it is a positive number
\* and the sentinel of its cell otherwise (unbounded for the bitrate cells,
\* the default buffer size for the buffer sizes), and every such cell always
\* holds a positive number or its sentinel.
C4_SettersNormalize ==
  /\ [](\A t \in MediaTypes :
          /\ usrBitrates[t] >= 1
          /\ maxBitrates[t] >= 1
          /\ bufSizes[t] >= 1)
  /\ [][ \A x \in SetterArgs :
           /\ setAudioBitrate(x)
                => usrBitrates'["audio"] = Normalized(x, Infinity)
           /\ setVideoBitrate(x)
                => usrBitrates'["video"] = Normalized(x, Infinity)
           /\ setAudioMaxBitrate(x)
                => maxBitrates'["audio"] = Normalized(x, Infinity)
           /\ setVideoMaxBitrate(x)
                => maxBitrates'["video"] = Normalized(x, Infinity)
           /\ setAudioBufferSize(x)
                => bufSizes'["audio"] = Normalized(x, defaultBufferSize)
           /\ setVideoBufferSize(x)
                => bufSizes'["video"] = Normalized(x, defaultBufferSize) ]_vars

\* no setter call, event or timer makes the representations stream fail
\* (find returning null under a.id === b.id)
NoStreamError == ~adapters.error

\* a buffer size just reset to the default by a rejected argument, beside a
\* pin and a buffer size stored as given and a max bitrate back to unbounded
C4_Witness ==
  /\ lastCall = Call("setBufferSize", "video", "defaulted", {})
  /\ bufSizes["video"] = defaultBufferSize
  /\ bufSizes["audio"] = 5
  /\ usrBitrates["audio"] = 25
  /\ usrBitrates["video"] = Infinity
  /\ maxBitrates["video"] = 5

\* the bitrate the combination rule gives without a pin
AutoBitrate(max, avr) ==
  LargestAtMost(Ladder, IF IsFinite(max) /\ max < avr THEN max ELSE avr)

\* C5: a setter call with a non-positive or non-numeric argument on a finite
\* pin makes the stream hold, within the call, the representation given by
\* the stream's current max bound and debounced estimate alone.
C5_ClearingPinRestoresAuto ==
  [][ \A x \in RepArgs :
        ( /\ ~IsPositiveNumber(x)
          /\ Subscribed(adaptation.type)
          /\ usrBitrates[adaptation.type] < Infinity
          /\ setBitrate(adaptation.type, x) )
        => /\ usrBitrates'[adaptation.type] = Infinity
           /\ adapters'.max = adapters.max
           /\ adapters'.avr = adapters.avr
           /\ adapters'.emitted \in RepSet
           /\ adapters'.emitted.bitrate =
                AutoBitrate(adapters.max, adapters.avr) ]_vars

\* a call that cleared the pin and thereby changed the emitted representation
\* to the one of the estimate, above the operator max's ladder value
C5_Witness ==
  /\ Subscribed("audio")
  /\ lastCall = Call("setBitrate", "audio", "defaulted", {"representations"})
  /\ usrBitrates["audio"] = Infinity
  /\ maxBitrates["audio"] = 25
  /\ adapters.avr = 40
  /\ adapters.emitted.bitrate = 20

\* C6: the first unsubscribe() releases the estimator connections once; a
\* later call releases nothing and changes no cell.
C6_UnsubscribeIdempotent ==
  /\ [](released <= 1 /\ (conns = "null" <=> released = 1))
  /\ [][ lastCall'.op = "unsubscribe"
           => /\ UNCHANGED << cells, device, streams >>
              /\ conns' = "null"
              /\ IF conns = "null"
                 THEN released' = released /\ lastCall'.note = "noop"
                 ELSE released' = released + 1 ]_vars

\* a second call of unsubscribe(), after cells were set
C6_Witness ==
  /\ lastCall = Call("unsubscribe", "", "noop", {})
  /\ released = 1
  /\ averageBitrates["video"] = 60
  /\ maxBitrates["audio"] = 25

\* C7: until unsubscribe() a metrics sample reaches the estimator and its
\* value is stored in the smoothed-estimate cell of its type; after it no
\* step changes a smoothed-estimate cell, while the setters still store their
\* values in the preference and constraint cells.
C7_EstimatorDetachedAfterTeardown ==
  /\ [][ \A t \in MediaTypes, v \in AverageBitrate :
           (conns = "open" /\ metricsSample(t, v))
             => averageBitrates'[t] = v /\ lastCall'.note = "consumed" ]_vars
  /\ [][ conns = "null"
           => averageBitrates' = averageBitrates /\ conns' = "null" ]_vars
  /\ [][ conns = "null" =>
           /\ \A track \in TeardownPrefs :
                /\ setAudioTrack(track) => languages' = track
                /\ setTextTrack(track) => subtitles' = track
           /\ \A x \in TeardownArgs :
                /\ setVideoBitrate(x)
                     => usrBitrates'["video"] = Normalized(x, Infinity)
                /\ setAudioMaxBitrate(x)
                     => maxBitrates'["audio"] = Normalized(x, Infinity)
                /\ setVideoBufferSize(x)
                     => bufSizes'["video"] = Normalized(x, defaultBufferSize)
         ]_vars

\* after teardown: a sample was dropped, the estimate of before is kept
C7_Witness ==
  /\ conns = "null"
  /\ lastCall = Call("metrics", "video", "dropped", {})
  /\ averageBitrates["video"] = 25
  /\ usrBitrates["video"] = 25
  /\ languages.language = "eng"

\* the language match among the candidates whose flag equals the preference's
MatchAmong(candidates, pref) ==
  LET withFlag == SelectSeq(candidates, LAMBDA a : a.flag = pref.flag)
      index ==
        findBetterMatchIndex(
          [i \in 1..Len(withFlag) |-> withFlag[i].language], pref.language)
  IN IF index >= 0 THEN withFlag[index + 1] ELSE NullAdaptation
Candidates(list) == {list[i] : i \in 1..Len(list)}

\* C8: the audio choice last emitted for a non-empty candidate list is a
\* candidate: the language match among the candidates with the preference's
\* audio-description flag if there is one, else the first candidate.
C8_AudioChoiceIsCandidate ==
  audioChoice.subscribed
    => /\ audioChoice.emitted \in Candidates(audioChoice.adaptations)
       /\ audioChoice.emitted =
            IF MatchAmong(audioChoice.adaptations, languages) # NullAdaptation
            THEN MatchAmong(audioChoice.adaptations, languages)
            ELSE audioChoice.adaptations[1]

\* no match: the first candidate is emitted though its flag differs
C8_Witness ==
  /\ audioChoice.subscribed
  /\ languages.language = "deu"
  /\ lastCall = Call("setAudioTrack", "audio", "", {"audioChoice"})
  /\ audioChoice.emitted = audioChoice.adaptations[1]
  /\ audioChoice.emitted.flag # languages.flag
  /\ Len(audioChoice.adaptations) > 1

\* C9: while the text preference is the none sentinel the text choice last
\* emitted is null, for every candidate list, and subscribing emits at once.
C9_TextNoneEmitsNull ==
  /\ (textChoice.subscribed /\ subtitles = NullTrack)
       => textChoice.emitted = NullAdaptation
  /\ (lastCall.op = "getAdaptationsChoice" /\ lastCall.type = "text")
       => textChoice.subscribed /\ "textChoice" \in lastCall.fired

\* setTextTrack(none) after a preference that had selected a candidate
C9_Witness ==
  /\ textChoice.subscribed
  /\ subtitles = NullTrack
  /\ lastCall = Call("setTextTrack", "text", "", {"textChoice"})
  /\ Len(textChoice.adaptations) = 3
  /\ textChoice.emitted = NullAdaptation

\* C10: for a text preference other than none, the text choice last emitted
\* is the language match among the candidates with the preference's
\* closed-caption flag, and null when there is none.
C10_TextChoiceMatchOrNull ==
  (textChoice.subscribed /\ subtitles # NullTrack)
    => /\ textChoice.emitted = MatchAmong(textChoice.adaptations, subtitles)
       /\ textChoice.emitted # NullAdaptation
            => /\ textChoice.emitted \in Candidates(textChoice.adaptations)
               /\ textChoice.emitted.flag = subtitles.flag

\* candidates exist, none matches: null is emitted, not the first candidate
C10_Witness ==
  /\ textChoice.subscribed
  /\ subtitles.language = "fra" /\ subtitles.flag = FALSE
  /\ Len(textChoice.adaptations) = 2
  /\ textChoice.adaptations[1].language = "fra"
  /\ textChoice.emitted = NullAdaptation

(***************************************************************************)
(* C11: a setter called twice in a row with the same normalized value      *)
(* emits nothing downstream for the second call: nothing on the            *)
(* adaptation-choice stream, nothing on the representation stream, nothing *)
(* on the buffer-size stream.  Two preference records with the same        *)
(* language and flag are the same value.                                   *)
(***************************************************************************)
SameTrack(a, b) == a.language = b.language /\ a.flag = b.flag

\* C11: the second of two calls in a row with the same value fires nothing
C11_SameValueEmitsOnce ==
  [][(/\ lastCall'.op = lastCall.op
      /\ lastCall'.type = lastCall.type
      /\ \/ lastCall'.op = "setBitrate" /\ usrBitrates' = usrBitrates
         \/ lastCall'.op = "setMaxBitrate" /\ maxBitrates' = maxBitrates
         \/ lastCall'.op = "setBufferSize" /\ bufSizes' = bufSizes
         \/ lastCall'.op = "setAudioTrack" /\ SameTrack(languages', languages)
         \/ lastCall'.op = "setTextTrack" /\ SameTrack(subtitles', subtitles))
     => lastCall'.fired = {}]_vars

(***************************************************************************)
(* C12: with threshold 0, getClosestBitrate on a non-empty ascending       *)
(* ladder returns the largest ladder value <= target when the target is at *)
(* least the lowest ladder value, and the lowest ladder value when the     *)
(* target is below it (target 0 included); an unbounded target gives the   *)
(* top of the ladder; the result is always a member of the ladder.         *)
(***************************************************************************)
LadderSet(l) == {l[i] : i \in 1..Len(l)}

\* C12: threshold 0 gives the largest ladder value <= target, else the lowest
C12_ClosestAtOrBelow ==
  (result.fn = "getClosestBitrate" /\ args.threshold = 0)
    => /\ result.value \in LadderSet(args.bitrates)
       /\ args.btr # NaN
            => result.value = LargestAtMost(LadderSet(args.bitrates), args.btr)
       /\ args.btr = Infinity
            => result.value = args.bitrates[Len(args.bitrates)]
       /\ args.btr = 0 => result.value = args.bitrates[1]

\* a target strictly inside the ladder, between two of its values
C12_Witness ==
  /\ result.fn = "getClosestBitrate"
  /\ args.threshold = 0
  /\ Len(args.bitrates) = MaxLadder
  /\ args.btr = 1000
  /\ result.value = 750

(***************************************************************************)
(* C13: for a non-empty ascending ladder, a target and a threshold t in    *)
(* [0, 1), getClosestBitrate returns the largest ladder value v with       *)
(* v <= (1 - t) * target, or the lowest ladder value when none qualifies;  *)
(* for [300, 750, 1500, 3000], target 1000, threshold 0.3 that is 300.     *)
(***************************************************************************)
\* v <= (1 - t) * target in exact arithmetic, t in tenths
WithinMargin(v, target, t) ==
  target = Infinity \/ v * ThresholdScale <= (ThresholdScale - t) * target
\* v < (1 - t) * target in exact arithmetic
StrictlyWithinMargin(v, target, t) ==
  target = Infinity \/ v * ThresholdScale < (ThresholdScale - t) * target
LargestOrLowest(qualifying, ladder) ==
  IF qualifying = {} THEN SetMin(ladder) ELSE SetMax(qualifying)
Example13 ==
  /\ args.bitrates = << 300, 750, 1500, 3000 >>
  /\ args.btr = 1000
  /\ args.threshold = defaultBufferThreshold

\* C13 as stated, for every threshold: the largest ladder value within the
\* margin, else the lowest
C13_MarginExact ==
  (result.fn = "getClosestBitrate" /\ args.btr # NaN)
    => /\ result.value =
            LargestOrLowest({v \in LadderSet(args.bitrates) :
                               WithinMargin(v, args.btr, args.threshold)},
                            LadderSet(args.bitrates))
       /\ Example13 => result.value = 300

\* C13 as the code has it: as stated for the thresholds 0 to 0.7; for 0.8
\* and 0.9 a ladder value equal to (1 - t) * target does not qualify
C13_MarginInDoubles ==
  (result.fn = "getClosestBitrate" /\ args.btr # NaN)
    => /\ args.threshold <= 7
            => result.value =
                 LargestOrLowest({v \in LadderSet(args.bitrates) :
                                    WithinMargin(v, args.btr, args.threshold)},
                                 LadderSet(args.bitrates))
       /\ args.threshold >= 8
            => result.value =
                 LargestOrLowest(
                   {v \in LadderSet(args.bitrates) :
                      StrictlyWithinMargin(v, args.btr, args.threshold)},
                   LadderSet(args.bitrates))
       /\ Example13 => result.value = 300

\* the example of the claim: 750 / 1000 is above 0.7, 300 / 1000 is not
C13_Witness ==
  /\ result.fn = "getClosestBitrate"
  /\ Example13
  /\ result.value = 300

(***************************************************************************)
(* C14: when some representation is at least as wide as the target width,  *)
(* getMaxUsefulBitrateforWidth returns a bitrate: the maximum bitrate      *)
(* among the representations no wider than the narrowest representation    *)
(* that is at least as wide as the target.  For the widths 640, 1280,      *)
(* 1920, 3840 with the bitrates 1000, 2000, 4000, 8000 and the width 1920  *)
(* that is 4000.                                                           *)
(***************************************************************************)
ArgReps == {args.representations[i] : i \in 1..Len(args.representations)}
WideEnough(reps, width) == {r \in reps : r.width >= width}
TierWidth(reps, width) == SetMin({r.width : r \in WideEnough(reps, width)})
MaxUsefulBitrate(reps, width) ==
  IF WideEnough(reps, width) = {} THEN Infinity
  ELSE SetMax({r.bitrate : r \in {q \in reps : q.width <= TierWidth(reps, width)}})
Example14 ==
  /\ args.representations =
       << [id |-> 1, bitrate |-> 1000, width |-> 640],
          [id |-> 2, bitrate |-> 2000, width |-> 1280],
          [id |-> 3, bitrate |-> 4000, width |-> 1920],
          [id |-> 4, bitrate |-> 8000, width |-> 3840] >>
  /\ args.width = 1920

\* C14: the value returned is the highest bitrate up to the tier of the width
C14_MaxUsefulBitrate ==
  (result.fn = "getMaxUsefulBitrateforWidth"
     /\ WideEnough(ArgReps, args.width) # {})
    => /\ result.value = JsNumber(MaxUsefulBitrate(ArgReps, args.width))
       /\ Example14 => result.value = JsNumber(4000)

(***************************************************************************)
(* C15: getMaxUsefulBitrateforWidth is non-decreasing in its width         *)
(* argument, unbounded being the greatest value, and it returns unbounded  *)
(* when the width exceeds the width of every representation.               *)
(***************************************************************************)
\* a <= b for two returned values, both of them numbers
NumberLe(a, b) == a.type = "number" /\ b.type = "number" /\ Le(a.num, b.num)

\* C15: a call with a smaller width returns no more than this call did
C15_MonotoneInWidth ==
  result.fn = "getMaxUsefulBitrateforWidth"
    => /\ \A w \in PureWidths :
            w <= args.width
              => NumberLe(getMaxUsefulBitrateforWidth(args.representations, w),
                          result.value)
       /\ WideEnough(ArgReps, args.width) = {}
            => result.value = JsNumber(Infinity)

\* the part of C15 about a width above every representation
C15_UnboundedBeyondWidest ==
  (result.fn = "getMaxUsefulBitrateforWidth"
     /\ WideEnough(ArgReps, args.width) = {})
    => result.value = JsNumber(Infinity)

(***************************************************************************)
(* C17: the engine never changes the lists it is given: after              *)
(* getBufferAdapters or getAdaptationsChoice and any sequence of input     *)
(* events, adaptation.representations and the candidate list have the      *)
(* order and the contents they were given with.                            *)
(***************************************************************************)
\* C17: the adaptation and the candidate lists are as they were supplied
C17_ListsNeverMutated ==
  /\ adaptation \in Adaptations
  /\ audioChoice.subscribed => audioChoice.adaptations \in CandidateLists
  /\ textChoice.subscribed => textChoice.adaptations \in TextCandidateLists

\* the part of C17 about the candidate lists of getAdaptationsChoice
C17_CandidatesNeverMutated ==
  /\ audioChoice.subscribed => audioChoice.adaptations \in CandidateLists
  /\ textChoice.subscribed => textChoice.adaptations \in TextCandidateLists

(***************************************************************************)
(* C16: the representation stream of an adaptation with several            *)
(* representations never emits two representations in a row with the same  *)
(* identifier: whatever changes the pin, the max bound and the estimate go *)
(* through, it emits only when the chosen representation differs in        *)
(* identity from the one it emitted last.                                  *)
(***************************************************************************)
\* C16: an emission of the subscribed stream differs in id from the last one
C16_NoRepeatedEmission ==
  [][(adapters.phase = "subscribed" /\ "representations" \in lastCall'.fired)
     => adapters'.emitted.id # adapters.emitted.id]_vars

\* the debounced estimate is delivered and the stream, subscribed before,
\* emits the representation of another bitrate
C16_Witness ==
  /\ adapters.phase = "subscribed"
  /\ lastCall.op = "tick"
  /\ "representations" \in lastCall.fired
  /\ adapters.emitted.bitrate = 20

(***************************************************************************)
(* C18: in the smoothed-estimate stage, the first estimate value a         *)
(* subscription sees, and the value used for the immediate first emission, *)
(* are mapped to the ladder with threshold 0; every later estimate value   *)
(* of the subscription is mapped with the margin threshold (0.3).  The     *)
(* same estimate can so map higher as first value than as a later value.   *)
(***************************************************************************)
\* the ladder value for an estimate under a margin of t tenths
MappedEstimate(ladder, estimate, t) ==
  LargestOrLowest({v \in LadderSet(ladder) : WithinMargin(v, estimate, t)},
                  LadderSet(ladder))

\* C18: threshold 0 for the startWith value and for the first value of the
\* subscription, the margin threshold for every value after it
C18_FirstEstimateWithoutMargin ==
  [][
      /\ lastCall'.op = "getBufferAdapters"
          => adapters'.startWith =
               MappedEstimate(adapters'.bitrates,
                              averageBitrates[adaptation.type], 0)
      /\ lastCall'.op = "subscribe"
          => /\ adapters'.avr = adapters.startWith
             /\ adapters'.key =
                  MappedEstimate(adapters.bitrates,
                                 averageBitrates[adaptation.type], 0)
      /\ (lastCall'.op = "metrics" /\ adapters.phase = "subscribed")
          => adapters'.key =
               MappedEstimate(adapters.bitrates,
                              averageBitrates'[adaptation.type],
                              defaultBufferThreshold)
    ]_vars

\* the estimate 25 gave 20 as the first value and gives 10 as a later value
C18_Witness ==
  /\ adapters.phase = "subscribed"
  /\ lastCall.op = "metrics"
  /\ averageBitrates[adaptation.type] = 25
  /\ adapters.startWith = 20
  /\ adapters.key = 10

(***************************************************************************)
(* C19: the estimate-derived ladder value that feeds the choice changes    *)
(* only once the mapped, duplicate-suppressed estimate has been stable for *)
(* the window of 2000 ms.  A newer distinct value that arrives before the  *)
(* window has elapsed cancels the pending emission; only the last value of *)
(* the window is delivered, the earlier ones are dropped and never         *)
(* delivered later; with no newer value, the pending value is eventually   *)
(* delivered.                                                              *)
(***************************************************************************)
AllBitrates ==
  UNION {{a.representations[i].bitrate : i \in 1..Len(a.representations)} :
           a \in Adaptations}

\* a newer distinct value restarts the window and replaces the pending one
C19_NewerValueCancels ==
  (adapters.phase = "subscribed" /\ adapters'.key # adapters.key)
    => /\ lastCall'.op = "metrics"
       /\ adapters'.pending = adapters'.key
       /\ adapters'.timer = DebounceTime
       /\ adapters'.avr = adapters.avr

\* the value that feeds the choice changes only when the window of the last
\* distinct value has run out, and to that value
C19_DeliversLastAfterWindow ==
  (adapters.phase = "subscribed" /\ adapters'.avr # adapters.avr)
    => /\ lastCall'.op = "tick"
       /\ adapters.timer <= TickMs
       /\ adapters'.avr = adapters.key
       /\ adapters.pending = adapters.key
       /\ adapters'.pending = NoValue

\* time passing without delivery only brings the end of the window nearer
C19_WindowRunsDown ==
  (adapters.phase = "subscribed" /\ lastCall'.op = "tick"
     /\ adapters'.pending # NoValue)
    => /\ adapters'.pending = adapters.pending
       /\ adapters'.timer = adapters.timer - TickMs
       /\ adapters'.timer >= 1

\* a pending value is delivered unless a newer distinct value replaces it
C19_EventuallyDelivered ==
  \A v \in AllBitrates :
    (adapters.pending = v) ~> (adapters.avr = v \/ adapters.key # v)

\* C19: the debounce of the mapped estimate: restart on a newer value, only
\* the last value delivered, after the full window, and eventually
C19_Debounce ==
  /\ [][C19_NewerValueCancels /\ C19_DeliversLastAfterWindow
          /\ C19_WindowRunsDown]_vars
  /\ C19_EventuallyDelivered

\* the estimate 60 was mapped to 40, stayed for the window and was delivered
C19_Witness ==
  /\ lastCall.op = "tick"
  /\ lastCall.note = "delivered"
  /\ adapters.key = 40
  /\ adapters.avr = 40
  /\ adapters.pending = NoValue

(***************************************************************************)
(* C20: latest-value consistency.  After every input event (pin set,       *)
(* operator max set, viewport width change, visibility change, delivery of *)
(* a debounced estimate) the representation last emitted by a subscribed   *)
(* stream has the identifier of the representation that the combination    *)
(* rule gives for the latest value of every input; the pin, the max, the   *)
(* width and the visibility take effect within the event.                  *)
(***************************************************************************)
Min(a, b) == IF a < b THEN a ELSE b

\* the three cases of the combination rule for the latest pin, a max bound
\* and the estimate last delivered, and the representation for the result
RuleTarget(max) ==
  IF usrBitrates[adaptation.type] < Infinity THEN usrBitrates[adaptation.type]
  ELSE IF IsFinite(max) THEN Min(max, adapters.avr)
  ELSE adapters.avr
RuleRepresentation(max) ==
  LET b == LargestAtMost(Ladder, RuleTarget(max))
      reps == adaptation.representations
      first == CHOOSE i \in 1..Len(reps) :
                 /\ reps[i].bitrate = b
                 /\ \A j \in 1..(i - 1) : reps[j].bitrate # b
  IN reps[first]

\* C20: the stream holds the latest pin and the effective max bound of the
\* latest operator max, width and visibility, and the representation last
\* emitted is the one the rule gives for them and the delivered estimate
C20_LatestValueConsistency ==
  Subscribed(adaptation.type)
    => /\ adapters.usr = usrBitrates[adaptation.type]
       /\ adapters.max =
            IF adaptation.type = "video"
            THEN videoMaxBitrate(maxBitrates["video"], videoWidth, inBackground,
                                 adaptation.representations, adapters.bitrates)
            ELSE maxBitrates[adaptation.type]
       /\ adapters.emitted.id = RuleRepresentation(adapters.max).id

\* a viewport width change made the operator max of 25 effective and the
\* stream emitted the representation for it within the event
C20_Witness ==
  /\ lastCall = Call("videoWidth", "video", "", {"representations"})
  /\ usrBitrates["video"] = Infinity
  /\ maxBitrates["video"] = 25
  /\ adapters.avr = 40
  /\ adapters.emitted.bitrate = 20

\* the representations stream of the adaptation has a subscriber
RepresentationsSubscribed == adapters.phase \in {"subscribed", "onlySubscribed"}
SingleRepresentation == Len(adaptation.representations) = 1

\* C21: the representations stream of an adaptation with exactly one
\* representation emits that representation on subscription and nothing
\* after it, whatever bitrate setter, estimate or device event follows; and
\* for every adaptation the buffer-size stream handed out with it carries
\* the current value of the type's buffer-size cell, which is the default
\* until its setter is called, is changed by that setter only and then holds
\* the normalized argument (the default for a type without a cell).
C21_SingleRepresentationStream ==
  /\ \A t \in BufferTypes : bufSizes[t] = defaultBufferSize
  /\ [](/\ (SingleRepresentation /\ RepresentationsSubscribed)
            => adapters.emitted = adaptation.representations[1]
        /\ bufferSizes.subscribed
            => bufferSizes.emitted =
                 IF adaptation.type \in BufferTypes
                 THEN bufSizes[adaptation.type]
                 ELSE defaultBufferSize)
  /\ [][
        /\ (SingleRepresentation /\ RepresentationsSubscribed)
             => /\ "representations" \notin lastCall'.fired
                /\ adapters'.emitted = adapters.emitted
                /\ adaptation' = adaptation
        /\ \A t \in BufferTypes :
             bufSizes'[t] # bufSizes[t]
               => lastCall'.op = "setBufferSize" /\ lastCall'.type = t
        /\ \A x \in SetterArgs, t \in MediaTypes :
             setBufferSize(t, x)
               => bufSizes'[t] = Normalized(x, defaultBufferSize)
     ]_vars

\* the one video representation still the value of its stream with a pin
\* above it, an estimate above it and the page hidden, while the subscriber
\* of the buffer sizes has just received a stored value
C21_Witness ==
  /\ SingleRepresentation
  /\ adaptation.type = "video"
  /\ adapters.phase = "onlySubscribed"
  /\ adapters.emitted = adaptation.representations[1]
  /\ usrBitrates["video"] = 25
  /\ averageBitrates["video"] = 60
  /\ inBackground
  /\ bufSizes["audio"] = defaultBufferSize
  /\ bufferSizes.emitted = 25
  /\ lastCall = Call("setBufferSize", "video", "stored", {"bufferSizes"})

\* C22: for an adaptation with several representations whose ladder is the
\* set of their bitrates, the representations stream never fails and the
\* value it last emitted is one of the adaptation's representations, never
\* null, with a ladder bitrate, for every pin, max bound (the value computed
\* with the width limit included) and estimate (0 and unbounded included).
C22_EmitsARepresentation ==
  ( /\ Subscribed(adaptation.type)
    /\ Len(adaptation.representations) > 1
    /\ LadderSet(adapters.bitrates) = Ladder )
    => /\ ~adapters.error
       /\ adapters.emitted # NullRep
       /\ adapters.emitted \in RepSet
       /\ adapters.emitted.bitrate \in Ladder

\* with the width limit on (the max bound it computes is not a number) and
\* no pin, an estimate of 0 leaving the debounce has just brought the stream
\* down to the representation of the lowest ladder bitrate
C22_Witness ==
  /\ Subscribed("video")
  /\ options.limitVideoWidth
  /\ usrBitrates["video"] = Infinity
  /\ averageBitrates["video"] = 0
  /\ adapters.max = NaN
  /\ adapters.emits
  /\ lastCall = Call("tick", "video", "delivered", {"representations"})
  /\ adapters.emitted \in RepSet
  /\ adapters.emitted.bitrate = SetMin(Ladder)

\* C23: while no bitrate is pinned, the bitrate of the representation last
\* emitted is <= the ladder value the debounced estimate currently maps to,
\* whatever the operator max bitrate, the viewport width and the visibility
\* are; a representation above that value is emitted under a finite pin only.
C23_ConstraintsOnlyLower ==
  Subscribed(adaptation.type)
    => /\ usrBitrates[adaptation.type] = Infinity
            => adapters.emitted.bitrate <= adapters.avr
       /\ adapters.emitted.bitrate > adapters.avr
            => /\ IsFinite(usrBitrates[adaptation.type])
               /\ usrBitrates[adaptation.type] > adapters.avr

\* no pin, page visible: an operator max below the estimate's ladder value
\* has just taken the video stream below that value
C23_Witness ==
  /\ Subscribed("video")
  /\ usrBitrates["video"] = Infinity
  /\ ~inBackground
  /\ maxBitrates["video"] = 25
  /\ adapters.avr = 40
  /\ adapters.emitted.bitrate = 20
  /\ lastCall = Call("setMaxBitrate", "video", "stored", {"representations"})

====
